---- MODULE Spec2Model ----
(***************************************************************************)
(* Model of morph_monitor.py: the poller (MorphTransactionMonitor) that    *)
(* fetches a page of transactions, classifies the new ones and rewrites    *)
(* transaction_data.json, and the /stats handler (get_stats) that reads    *)
(* the same file from the Flask thread.                                    *)
(*                                                                         *)
(* The file is written in place: open(..., 'w') truncates it and json.dump *)
(* fills it afterwards, so a save is two steps (SaveOpen, then SaveDump or *)
(* SaveFail) and the other thread can run between them.                    *)
(*                                                                         *)
(* Spec follows the two threads over arbitrary pages.  RunSpec follows the *)
(* process of main() (token symbols, single-shot or continuous mode, the   *)
(* sleeps, Ctrl+C, the exit status) against an explorer history that only  *)
(* grows at its front; FreshSpec is RunSpec started without a data file.   *)
(* ClassifierSpec follows one call of is_target_pair_transaction.          *)
(***************************************************************************)
EXTENDS Integers, Sequences, FiniteSets, TLC

\* ------------------------------------------------------------------ bounds
MaxPage == 2          \* longest fetched page
MaxCycles == 2        \* poll cycles explored
InitHistoryLen == 99  \* length of abnormal_txs in the long-running initial record
MaxUpstream == 3      \* longest explorer history followed

\* ------------------------------------------------------- program constants
\* Python's None and JSON's null.
None == "None"

\* abnormal_txs[-100:]
HISTORY_LIMIT == 100

ETH_ADDRESS == "0x5300000000000000000000000000000000000011"
MPH_ADDRESS == "0x579C032A137D796f29b14AdEcb58C2E56B14e367"
UNIVERSAL_ROUTER == "0xb789922D715475F419b7CB47B6155bF7a2ACECD6"
UNISWAP_V2_ROUTER == "0x81606E6f8aAD6C75c2f383Ea595c2b9f8ce8aE3a"
\* An address that is neither a router nor a token of the pair.
OTHER_ADDRESS == "0xAbCd000000000000000000000000000000000099"

\* The same addresses with every hex letter in upper case, as an explorer
\* may write them.
MPH_UPPER == "0x579C032A137D796F29B14ADECB58C2E56B14E367"
UNIVERSAL_ROUTER_UPPER == "0xB789922D715475F419B7CB47B6155BF7A2ACECD6"
UNISWAP_V2_ROUTER_UPPER == "0x81606E6F8AAD6C75C2F383EA595C2B9F8CE8AE3A"
OTHER_UPPER == "0xABCD000000000000000000000000000000000099"

\* str.lower() that leaves the text as it is.
LowerNothing(s) == s

\* str.lower() on the addresses the model uses ("" is the default of
\* tx["to"].get("hash", "")).
Lower(s) ==
  CASE s \in {MPH_ADDRESS, MPH_UPPER} -> "0x579c032a137d796f29b14adecb58c2e56b14e367"
    [] s \in {UNIVERSAL_ROUTER, UNIVERSAL_ROUTER_UPPER}
         -> "0xb789922d715475f419b7cb47b6155bf7a2acecd6"
    [] s \in {UNISWAP_V2_ROUTER, UNISWAP_V2_ROUTER_UPPER}
         -> "0x81606e6f8aad6c75c2f383ea595c2b9f8ce8ae3a"
    [] s \in {OTHER_ADDRESS, OTHER_UPPER} -> "0xabcd000000000000000000000000000000000099"
    [] OTHER -> s

TOKEN_ADDRESSES == [ETH |-> ETH_ADDRESS, MPH |-> MPH_ADDRESS]

DEX_CONTRACTS ==
  [UniversalRouter |-> Lower(UNIVERSAL_ROUTER),
   UniswapV2Router02 |-> Lower(UNISWAP_V2_ROUTER)]

DexValues == {DEX_CONTRACTS[k] : k \in DOMAIN DEX_CONTRACTS}

\* TOKEN_ADDRESSES.get(symbol): None for a symbol that is not in the table.
TokenAddress(symbol) ==
  IF symbol \in DOMAIN TOKEN_ADDRESSES THEN TOKEN_ADDRESSES[symbol] ELSE None

\* __init__: the attributes of the monitor the model uses (`self`).  No
\* argument is validated.
MorphTransactionMonitor(address, base_token, quote_token) ==
  [address |-> Lower(address),
   base_token |-> base_token,
   quote_token |-> quote_token,
   base_token_address |-> TokenAddress(base_token),
   quote_token_address |-> TokenAddress(quote_token)]

\* ------------------------------------------------------------ transactions
\* A transaction of the explorer's page: its hash and its `to` field, which
\* is null (None) or an object whose "hash" is the destination address.  A
\* hash names one transaction, so the pool holds one transaction per hash:
\* two to an unrelated address, one to a router, one without destination.
Txs ==
  {[hash |-> "h1", to |-> OTHER_ADDRESS],
   [hash |-> "h2", to |-> UNIVERSAL_ROUTER],
   [hash |-> "h3", to |-> None],
   [hash |-> "h4", to |-> OTHER_ADDRESS]}

Hashes == {tx.hash : tx \in Txs}

\* The sequences of at most n elements of S.
RECURSIVE SeqsUpTo(_, _)
SeqsUpTo(S, n) ==
  IF n = 0 THEN {<<>>}
  ELSE LET shorter == SeqsUpTo(S, n - 1)
       IN shorter \cup
          {Append(s, x) : s \in {t \in shorter : Len(t) = n - 1}, x \in S}

Pages == {p \in SeqsUpTo(Txs, MaxPage) : \A i, j \in 1..Len(p) : i # j => p[i] # p[j]}

\* What requests.get(...).json() gives get_transactions: a RequestException
\* ("error"), a JSON object without "items" ("noitems"), or a page.
Responses ==
  {[kind |-> "error", items |-> <<>>], [kind |-> "noitems", items |-> <<>>]}
    \cup {[kind |-> "ok", items |-> p] : p \in Pages}

\* get_transactions returns None on a RequestException; analyze_transactions
\* gives up on `not transactions or "items" not in transactions`.
FetchFailed(resp) == resp.kind = "error" \/ resp.kind = "noitems"

\* ------------------------------------------------------------- the record
\* start_time as text in the file: the instant and the UTC notation it is
\* written with; NoTime is JSON null.  In memory it is the instant (0 = None).
NoTime == [t |-> 0, sfx |-> None]
isoformat(t) == [t |-> t, sfx |-> "+00:00"]
ReplaceZ(s) == IF s.sfx = "Z" THEN [s EXCEPT !.sfx = "+00:00"] ELSE s
fromisoformat(s) == s.t

\* One abnormal_txs entry (timestamp, method, value, status and gas_used are
\* copied from the transaction like hash and are left out).
abnormal_tx(tx) == [hash |-> tx.hash, to_address |-> tx.to]

\* The file transaction_data.json.  kind: "absent" (no file), "partial" (empty
\* or incomplete JSON text), "record" (a JSON object).  has_monitoring tells
\* whether the object has the 'monitoring' key.  detected is a history
\* variable, not part of the file: every abnormal record appended to this
\* record since it was created, untruncated.
NoRecord(k) ==
  [kind |-> k, monitored_address |-> None, has_monitoring |-> FALSE,
   start_time |-> NoTime, last_processed_tx |-> None,
   total_transactions |-> 0, abnormal_transactions |-> 0,
   abnormal_txs |-> <<>>, detected |-> <<>>]

FileAbsent == NoRecord("absent")
FilePartial == NoRecord("partial")

\* initial_data of init_data_file, in memory (start_time None).
initial_data(address) ==
  [kind |-> "record", monitored_address |-> address, has_monitoring |-> TRUE,
   start_time |-> 0, last_processed_tx |-> None,
   total_transactions |-> 0, abnormal_transactions |-> 0,
   abnormal_txs |-> <<>>, detected |-> <<>>]

\* load_data: "raise" (FileNotFoundError from open), None on a JSONDecodeError,
\* else the object with start_time parsed when it is set.
load_data(f) ==
  IF f.kind = "absent" THEN [result |-> "raise", data |-> FileAbsent]
  ELSE IF f.kind = "partial" THEN [result |-> None, data |-> FilePartial]
  ELSE [result |-> "data",
        data |-> IF f.has_monitoring /\ f.start_time # NoTime
                 THEN [f EXCEPT !.start_time = fromisoformat(ReplaceZ(f.start_time))]
                 ELSE [f EXCEPT !.start_time = 0]]

\* save_data up to open(): start_time to text when it is set.  The result is
\* what json.dump writes.
Serialise(data) ==
  IF data.has_monitoring /\ data.start_time # 0
  THEN [data EXCEPT !.start_time = isoformat(data.start_time)]
  ELSE [data EXCEPT !.start_time = NoTime]

\* -------------------------------------------------------------- classifier
\* What a call gives: a returned value, or an exception (exc names it).
Returns(v) == [exc |-> "none", value |-> v]
Raises(e) == [exc |-> e, value |-> FALSE]

\* is_target_pair_transaction: FALSE for a null `to`; else the lower-cased
\* destination against the routers, then against the two token addresses.
\* The list of line 130 lower-cases both token addresses: AttributeError when
\* one of them is None.
is_target_pair_transaction(self, tx) ==
  IF tx.to = None THEN Returns(FALSE)
  ELSE LET to_address == Lower(tx.to)
       IN IF to_address \in DexValues THEN Returns(TRUE)
          ELSE IF None \in {self.base_token_address, self.quote_token_address}
          THEN Raises("NoneType.lower")
          ELSE Returns(to_address \in {Lower(self.base_token_address),
                                       Lower(self.quote_token_address)})

\* ---------------------------------------------------------- the poll cycle
\* CollectNew with the `break` after the append: the matching item is kept.
RECURSIVE CollectNewInclusive(_, _)
CollectNewInclusive(items, last_processed_tx) ==
  IF items = <<>> THEN <<>>
  ELSE IF Head(items).hash = last_processed_tx THEN <<Head(items)>>
  ELSE <<Head(items)>> \o CollectNewInclusive(Tail(items), last_processed_tx)

\* The loop of lines 170-175: the items before the first one whose hash is
\* last_processed_tx, in page order.
RECURSIVE CollectNew(_, _)
CollectNew(items, last_processed_tx) ==
  IF items = <<>> THEN <<>>
  ELSE IF Head(items).hash = last_processed_tx THEN <<>>
  ELSE <<Head(items)>> \o CollectNew(Tail(items), last_processed_tx)

\* reversed(new_transactions)
RECURSIVE Reversed(_)
Reversed(s) == IF s = <<>> THEN <<>> ELSE Append(Reversed(Tail(s)), Head(s))

\* KeepLast as [:100]: the newest records are dropped.
KeepFirst(txs) ==
  IF Len(txs) <= HISTORY_LIMIT THEN txs ELSE SubSeq(txs, 1, HISTORY_LIMIT)

\* data['abnormal_txs'][-100:]
KeepLast(txs) ==
  IF Len(txs) <= HISTORY_LIMIT THEN txs
  ELSE SubSeq(txs, Len(txs) - HISTORY_LIMIT + 1, Len(txs))

\* ProcessOne with total_transactions incremented for expected transactions
\* only.
ProcessOneMiscounted(self, d, tx) ==
  LET expected == is_target_pair_transaction(self, tx)
  IN IF expected.exc # "none" THEN [d EXCEPT !.exc = expected.exc]
     ELSE IF expected.value
     THEN [d EXCEPT !.data.total_transactions = @ + 1]
     ELSE LET flagged == [d EXCEPT !.data.abnormal_transactions = @ + 1]
          IN IF tx.to = None THEN [flagged EXCEPT !.exc = "NoneType.get"]
             ELSE [flagged EXCEPT
                     !.data.abnormal_txs = KeepLast(Append(@, abnormal_tx(tx))),
                     !.data.detected = Append(@, abnormal_tx(tx))]

\* ProcessOne without the append to abnormal_txs: an abnormal transaction is
\* counted and not recorded.
ProcessOneUnrecorded(self, d, tx) ==
  LET counted == [d EXCEPT !.data.total_transactions = @ + 1]
      expected == is_target_pair_transaction(self, tx)
  IN IF expected.exc # "none" THEN [counted EXCEPT !.exc = expected.exc]
     ELSE IF expected.value THEN counted
     ELSE LET flagged == [counted EXCEPT !.data.abnormal_transactions = @ + 1]
          IN IF tx.to = None THEN [flagged EXCEPT !.exc = "NoneType.get"]
             ELSE flagged

\* The body of the loop of lines 182-210 for one transaction.  tx.get("to", {})
\* is None for a null `to`, so building abnormal_tx raises AttributeError
\* after both counters were incremented in memory.  d.exc is the exception
\* that left the loop ("none" while it runs).
ProcessOne(self, d, tx) ==
  LET counted == [d EXCEPT !.data.total_transactions = @ + 1]
      expected == is_target_pair_transaction(self, tx)
  IN IF expected.exc # "none" THEN [counted EXCEPT !.exc = expected.exc]
     ELSE IF expected.value THEN counted
     ELSE LET flagged == [counted EXCEPT !.data.abnormal_transactions = @ + 1]
          IN IF tx.to = None THEN [flagged EXCEPT !.exc = "NoneType.get"]
             ELSE [flagged EXCEPT
                     !.data.abnormal_txs = KeepLast(Append(@, abnormal_tx(tx))),
                     !.data.detected = Append(@, abnormal_tx(tx))]

\* for tx in reversed(new_transactions): ..., stopping at the first raise.
RECURSIVE ProcessAll(_, _, _)
ProcessAll(self, d, txs) ==
  IF txs = <<>> \/ d.exc # "none" THEN d
  ELSE ProcessAll(self, ProcessOne(self, d, Head(txs)), Tail(txs))

\* The data of lines 146-164, built when load_data returned None.
reinitialised(address, now) ==
  [initial_data(address) EXCEPT !.start_time = now]

\* analyze_transactions from load_data (line 143) to the call of save_data,
\* for a response that has "items", the file `f` and the clock `now`.
\* outcome: "raised" (an exception leaves the method and exc names it:
\* FileNotFoundError from load_data, KeyError for a record without
\* 'monitoring', AttributeError for a null `to` or a None token address) or
\* "save" (line 213 is reached with `data`).
\* new_transactions is the list of line 170.
analyze_fetched(self, resp, f, now) ==
  LET loaded == load_data(f)
      stop(e) == [outcome |-> "raised", exc |-> e,
                  new_transactions |-> <<>>, data |-> FileAbsent]
  IN IF loaded.result = "raise" THEN stop("FileNotFoundError")
     ELSE LET data0 == IF loaded.result = None THEN reinitialised(self.address, now)
                       ELSE loaded.data
          IN IF ~data0.has_monitoring THEN stop("KeyError.monitoring")
             ELSE LET data1 == IF data0.start_time = 0
                               THEN [data0 EXCEPT !.start_time = now] ELSE data0
                      new_transactions == CollectNew(resp.items, data1.last_processed_tx)
                      data2 == IF resp.items # <<>>
                               THEN [data1 EXCEPT !.last_processed_tx = resp.items[1].hash]
                               ELSE data1
                      done == ProcessAll(self, [data |-> data2, exc |-> "none"],
                                         Reversed(new_transactions))
                  IN [outcome |-> IF done.exc # "none" THEN "raised" ELSE "save",
                      exc |-> done.exc,
                      new_transactions |-> new_transactions,
                      data |-> IF done.exc # "none" THEN FileAbsent ELSE done.data]

\* analyze_transactions reading the page as transactions.get("items", []): a
\* failed fetch is taken for an empty page.
analyze_transactions_items_default(self, resp, f, now) ==
  analyze_fetched(self,
                  IF FetchFailed(resp) THEN [kind |-> "ok", items |-> <<>>] ELSE resp,
                  f, now)

\* analyze_transactions up to the call of save_data: "fetch_failed" is the
\* return of line 140.
analyze_transactions(self, resp, f, now) ==
  IF FetchFailed(resp)
  THEN [outcome |-> "fetch_failed", exc |-> "none",
        new_transactions |-> <<>>, data |-> FileAbsent]
  ELSE analyze_fetched(self, resp, f, now)

\* ------------------------------------------------------------------ state
VARIABLES
  file,            \* transaction_data.json
  pc,              \* the poller: "new", "ctor_write", "ready", "cycle_write"
  pending,         \* what the poller's open save_data is writing
  spc,             \* the /stats handler: "idle", "ctor_write", "load", "repair_write"
  spending,        \* what the handler's open save_data is writing
  writers,         \* per thread: "closed", "open", or "clobbered" (the other
                   \* thread opened the file for writing while this one had it open)
  status_code,     \* the last answer of /stats: "none", "200", "404", "500"
  cycles,          \* analyze_transactions calls so far
  \* history variables
  resp,            \* the response of the last cycle
  pre,             \* the file when the last cycle started
  outcome,         \* of the last cycle: "none", "fetch_failed", "raised", "saved"
  new_txs,         \* new_transactions of the last cycle
  prev,            \* the file just before the poller's last save_data opened it
  save_result,     \* of the poller's last save_data: "none", "open", "written", "failed"
  observed         \* what the handler's last load_data read: "idle" when the
                   \* poller had no save_data open, else "previous" (the file
                   \* as it was before that save), "new" (what that save
                   \* writes) or "neither"

\* The process as main() runs it, followed by RunSpec only.
VARIABLES
  args,            \* argparse's result: monitor (--monitor), base_token, quote_token
  rpc,             \* main(): "main" (before the constructor), "single" (the one
                   \* cycle of single-shot mode), "cycle" (the try block of
                   \* monitor_continuously), "sleep" (line 226), "handler_sleep"
                   \* (line 232), "exited"
  exit_code,       \* "none" while the process runs, then "0", "1" (uncaught
                   \* exception) or "SIGINT" (uncaught KeyboardInterrupt)
  interrupted,     \* the operator has pressed Ctrl+C
  error,           \* the exception that left the last cycle, "none" otherwise
  upstream,        \* the explorer's history of the address, newest first
  \* history variables
  counted,         \* the hashes counted into total_transactions of the record
                   \* in the file, in the order they were counted
  persisted        \* the counters of the last readable record the file held

\* The classifier's call, followed by ClassifierSpec only.
VARIABLES
  call             \* the monitor, the transaction and the result (exc is
                   \* "pending" before the call)

run_vars == <<args, rpc, exit_code, interrupted, error, upstream, counted, persisted>>
threads_vars == <<pc, pending, spc, spending, writers, status_code, observed>>

vars ==
  <<file, pc, pending, spc, spending, writers, status_code, cycles,
    resp, pre, outcome, new_txs, prev, save_result, observed, run_vars, call>>

ghosts_poller == <<resp, pre, outcome, new_txs, prev, save_result>>

Threads == {"poller", "status"}
MONITORED == "0xmonitored"
DUMMY == "dummy"

\* The monitor main() builds from --address and the default tokens.
Monitor == MorphTransactionMonitor(MONITORED, "ETH", "MPH")

\* datetime.now(timezone.utc): a clock that advances with every cycle and is
\* later than the start_time of LongRecord.
Now == cycles + 2

\* A record an earlier version wrote: no 'monitoring' key.
LegacyRecord ==
  [Serialise(initial_data(MONITORED)) EXCEPT !.has_monitoring = FALSE]

\* A record of a long-running monitor: InitHistoryLen abnormal transactions
\* in the history, start_time in the 'Z' notation.
LongHistory ==
  [i \in 1..InitHistoryLen |->
     [hash |-> IF i % 3 = 0 THEN "h4" ELSE IF i % 3 = 1 THEN "h1" ELSE "h2",
      to_address |-> OTHER_ADDRESS]]

LongRecord ==
  [Serialise(initial_data(MONITORED)) EXCEPT
     !.start_time = [t |-> 1, sfx |-> "Z"],
     !.last_processed_tx = "h2",
     !.total_transactions = InitHistoryLen + 1,
     !.abnormal_transactions = InitHistoryLen,
     !.abnormal_txs = LongHistory,
     !.detected = LongHistory]

\* main() as Spec takes it: `--monitor` with the default tokens; Spec follows
\* the two threads and leaves the process's own state as it is here.
RunIdle ==
  /\ args = [monitor |-> TRUE, base_token |-> "ETH", quote_token |-> "MPH"]
  /\ rpc = "main"
  /\ exit_code = "none"
  /\ interrupted = FALSE
  /\ error = "none"
  /\ upstream = <<>>
  /\ counted = <<>>
  /\ persisted = [total_transactions |-> 0, abnormal_transactions |-> 0]

\* No call of the classifier is followed.
NoCall == [self |-> Monitor, tx |-> [hash |-> None, to |-> None], result |-> Raises("pending")]

Init ==
  /\ file \in {FileAbsent, LegacyRecord, LongRecord}
  /\ pc = "new"
  /\ pending = FileAbsent
  /\ spc = "idle"
  /\ spending = FileAbsent
  /\ writers = [w \in Threads |-> "closed"]
  /\ status_code = "none"
  /\ cycles = 0
  /\ resp = [kind |-> "error", items |-> <<>>]
  /\ pre = FileAbsent
  /\ outcome = "none"
  /\ new_txs = <<>>
  /\ prev = FileAbsent
  /\ save_result = "none"
  /\ observed = "idle"
  /\ RunIdle
  /\ call = NoCall

\* ------------------------------------------------------------- save_data
\* open(self.data_file, 'w') by thread w: the file is truncated.  A thread
\* that has the file open while the other opens it is clobbered, and so is
\* the one that opens it then.
OpenedBy(w) ==
  [x \in Threads |->
     IF x = w
     THEN IF \E y \in Threads \ {w} : writers[y] # "closed" THEN "clobbered" ELSE "open"
     ELSE IF writers[x] # "closed" THEN "clobbered" ELSE "closed"]

\* json.dump and close by thread w of `content`: the file holds content,
\* unless the writes of the two threads were interleaved, and then it holds
\* content or a mix of both texts.
Dumped(w, content) ==
  IF writers[w] = "open" THEN {content} ELSE {content, FilePartial}

\* json.dump by thread w raises (an I/O error): what was written so far stays.
\* The threads' writes were interleaved: the other's text, or a mix.
Failed(w) ==
  IF writers[w] = "open" THEN {FilePartial} ELSE {file, FilePartial}

ClosedBy(w) == [writers EXCEPT ![w] = "closed"]

\* ---------------------------------------------------------------- poller
\* MorphTransactionMonitor(address): init_data_file creates the file when it
\* does not exist.
PollerConstructCreates ==
  /\ pc = "new"
  /\ file.kind = "absent"
  /\ file' = FilePartial
  /\ pending' = Serialise(initial_data(MONITORED))
  /\ writers' = OpenedBy("poller")
  /\ pc' = "ctor_write"
  /\ prev' = file
  /\ save_result' = "open"
  /\ UNCHANGED <<spc, spending, status_code, cycles, resp, pre, outcome, new_txs, observed>>
  /\ UNCHANGED <<run_vars, call>>

PollerConstructExists ==
  /\ pc = "new"
  /\ file.kind # "absent"
  /\ pc' = "ready"
  /\ UNCHANGED <<file, pending, spc, spending, writers, status_code, cycles,
                 resp, pre, outcome, new_txs, prev, save_result,
                 observed>>
  /\ UNCHANGED <<run_vars, call>>

\* The poller's save_data completes: json.dump wrote `pending`.
PollerDump ==
  /\ pc \in {"ctor_write", "cycle_write"}
  /\ file' \in Dumped("poller", pending)
  /\ writers' = ClosedBy("poller")
  /\ pc' = "ready"
  /\ save_result' = "written"
  /\ UNCHANGED <<pending, spc, spending, status_code, cycles, resp, pre, outcome, new_txs, prev, observed>>
  /\ UNCHANGED <<run_vars, call>>

\* The poller's save_data fails while writing: the exception is logged.
PollerSaveFails ==
  /\ pc \in {"ctor_write", "cycle_write"}
  /\ file' \in Failed("poller")
  /\ writers' = ClosedBy("poller")
  /\ pc' = "ready"
  /\ save_result' = "failed"
  /\ UNCHANGED <<pending, spc, spending, status_code, cycles, resp, pre, outcome, new_txs, prev, observed>>
  /\ UNCHANGED <<run_vars, call>>

\* analyze_transactions: the fetch fails and the method returns.
CycleFetchFails ==
  /\ pc = "ready"
  /\ cycles < MaxCycles
  /\ \E r \in Responses :
       LET a == analyze_transactions(Monitor, r, file, Now)
       IN /\ a.outcome = "fetch_failed"
          /\ resp' = r
          /\ new_txs' = a.new_transactions
  /\ pre' = file
  /\ outcome' = "fetch_failed"
  /\ cycles' = cycles + 1
  /\ UNCHANGED <<file, pc, pending, spc, spending, writers, status_code,
                 prev, save_result, observed>>
  /\ UNCHANGED <<run_vars, call>>

\* analyze_transactions: an exception leaves the method before save_data.
CycleRaises ==
  /\ pc = "ready"
  /\ cycles < MaxCycles
  /\ \E r \in Responses :
       LET a == analyze_transactions(Monitor, r, file, Now)
       IN /\ a.outcome = "raised"
          /\ resp' = r
          /\ new_txs' = a.new_transactions
  /\ pre' = file
  /\ outcome' = "raised"
  /\ cycles' = cycles + 1
  /\ UNCHANGED <<file, pc, pending, spc, spending, writers, status_code,
                 prev, save_result, observed>>
  /\ UNCHANGED <<run_vars, call>>

\* analyze_transactions reaches save_data, which opens the file.
CycleSaves ==
  /\ pc = "ready"
  /\ cycles < MaxCycles
  /\ \E r \in Responses :
       LET a == analyze_transactions(Monitor, r, file, Now)
       IN /\ a.outcome = "save"
          /\ resp' = r
          /\ new_txs' = a.new_transactions
          /\ pending' = Serialise(a.data)
  /\ file' = FilePartial
  /\ writers' = OpenedBy("poller")
  /\ pc' = "cycle_write"
  /\ pre' = file
  /\ prev' = file
  /\ outcome' = "saved"
  /\ save_result' = "open"
  /\ cycles' = cycles + 1
  /\ UNCHANGED <<spc, spending, status_code, observed>>
  /\ UNCHANGED <<run_vars, call>>

\* ----------------------------------------------------------- /stats handler
\* get_stats: MorphTransactionMonitor("dummy") creates the file when it does
\* not exist.
StatusConstructCreates ==
  /\ spc = "idle"
  /\ file.kind = "absent"
  /\ file' = FilePartial
  /\ spending' = Serialise(initial_data(DUMMY))
  /\ writers' = OpenedBy("status")
  /\ spc' = "ctor_write"
  /\ UNCHANGED <<pc, pending, status_code, cycles, ghosts_poller, observed>>
  /\ UNCHANGED <<run_vars, call>>

\* The handler's save_data completes.  After the constructor's save the
\* handler goes on to load_data; after the repair's save, `now - start_time`
\* subtracts the text save_data left in data from a datetime: TypeError.
StatusDump ==
  /\ spc \in {"ctor_write", "repair_write"}
  /\ file' \in Dumped("status", spending)
  /\ writers' = ClosedBy("status")
  /\ spc' = IF spc = "ctor_write" THEN "load" ELSE "idle"
  /\ status_code' = IF spc = "ctor_write" THEN status_code ELSE "500"
  /\ UNCHANGED <<pc, pending, spending, cycles, ghosts_poller, observed>>
  /\ UNCHANGED <<run_vars, call>>

StatusSaveFails ==
  /\ spc \in {"ctor_write", "repair_write"}
  /\ file' \in Failed("status")
  /\ writers' = ClosedBy("status")
  /\ spc' = IF spc = "ctor_write" THEN "load" ELSE "idle"
  /\ status_code' = IF spc = "ctor_write" THEN status_code ELSE "500"
  /\ UNCHANGED <<pc, pending, spending, cycles, ghosts_poller, observed>>
  /\ UNCHANGED <<run_vars, call>>

\* The data get_stats saves when 'monitoring' is missing (lines 245-252).
repaired(data, now) ==
  [data EXCEPT !.has_monitoring = TRUE, !.start_time = now,
               !.last_processed_tx = None, !.total_transactions = 0,
               !.abnormal_transactions = 0]

\* The handler reaches load_data: after the constructor's save, or at once
\* when the constructor found the file (os.path.exists and open follow each
\* other; the file is never deleted).
Loading ==
  \/ spc = "load"
  \/ spc = "idle" /\ file.kind # "absent"

\* What load_data reads now, against the poller's open save_data.
Observation ==
  IF pc \notin {"ctor_write", "cycle_write"} THEN "idle"
  ELSE IF file = prev THEN "previous"
  ELSE IF file = pending THEN "new"
  ELSE "neither"

\* load_data returns None (or open raises): 404 (500).
StatusNoData ==
  /\ Loading
  /\ load_data(file).result # "data"
  /\ status_code' = IF load_data(file).result = None THEN "404" ELSE "500"
  /\ spc' = "idle"
  /\ observed' = Observation
  /\ UNCHANGED <<file, pc, pending, spending, writers, cycles, ghosts_poller>>
  /\ UNCHANGED <<run_vars, call>>

\* load_data returns a record without 'monitoring': it is added and saved.
StatusRepairs ==
  /\ Loading
  /\ load_data(file).result = "data"
  /\ ~load_data(file).data.has_monitoring
  /\ spending' = Serialise(repaired(load_data(file).data, Now))
  /\ file' = FilePartial
  /\ writers' = OpenedBy("status")
  /\ spc' = "repair_write"
  /\ observed' = Observation
  /\ UNCHANGED <<pc, pending, status_code, cycles, ghosts_poller>>
  /\ UNCHANGED <<run_vars, call>>

\* load_data returns a record with 'monitoring': the statistics are rendered.
StatusAnswers ==
  /\ Loading
  /\ load_data(file).result = "data"
  /\ load_data(file).data.has_monitoring
  /\ status_code' = "200"
  /\ spc' = "idle"
  /\ observed' = Observation
  /\ UNCHANGED <<file, pc, pending, spending, writers, cycles, ghosts_poller>>
  /\ UNCHANGED <<run_vars, call>>

PollerNext ==
  \/ PollerConstructCreates
  \/ PollerConstructExists
  \/ PollerDump
  \/ PollerSaveFails
  \/ CycleFetchFails
  \/ CycleRaises
  \/ CycleSaves

StatusNext ==
  \/ StatusConstructCreates
  \/ StatusDump
  \/ StatusSaveFails
  \/ StatusNoData
  \/ StatusRepairs
  \/ StatusAnswers

Next == PollerNext \/ StatusNext

Spec == Init /\ [][Next]_vars

\* ------------------------------------------------------------ the process
\* main() from argparse to the end of the process, with the explorer's
\* history growing at its front.  The Flask thread is not followed here, so
\* a save_data is one step.
Symbols == {"ETH", "MPH", "BTC"}

\* monitor = MorphTransactionMonitor(args.address, args.base_token, args.quote_token)
Self == MorphTransactionMonitor(MONITORED, args.base_token, args.quote_token)

ThreadsIdle ==
  /\ pc = "new"
  /\ pending = FileAbsent
  /\ spc = "idle"
  /\ spending = FileAbsent
  /\ writers = [w \in Threads |-> "closed"]
  /\ status_code = "none"
  /\ observed = "idle"
  /\ resp = [kind |-> "error", items |-> <<>>]
  /\ pre = FileAbsent
  /\ new_txs = <<>>
  /\ prev = FileAbsent

run_frame == <<threads_vars, resp, pre, new_txs, prev, call>>

Readable(f) == f.kind = "record" /\ f.has_monitoring

\* The counters a reader of the file last saw.
Persisted(f, before) ==
  IF Readable(f)
  THEN [total_transactions |-> f.total_transactions,
        abnormal_transactions |-> f.abnormal_transactions]
  ELSE before

\* The process starts with no file and an empty history, or over the record
\* of a long-running monitor whose last_processed_tx heads the history.
RunInit ==
  /\ args \in [monitor : BOOLEAN, base_token : Symbols, quote_token : Symbols]
  /\ \/ file = FileAbsent /\ upstream = <<>>
     \/ file = LongRecord /\ upstream = <<CHOOSE tx \in Txs : tx.hash = LongRecord.last_processed_tx>>
  /\ rpc = "main"
  /\ exit_code = "none"
  /\ interrupted = FALSE
  /\ error = "none"
  /\ counted = <<>>
  /\ persisted = Persisted(file, [total_transactions |-> 0, abnormal_transactions |-> 0])
  /\ cycles = 0
  /\ outcome = "none"
  /\ save_result = "none"
  /\ ThreadsIdle
  /\ call = NoCall

\* save_data in a process that writes alone: the text is written, or an
\* exception while writing is logged and the truncated file stays.
save_data(content) ==
  {[file |-> content, result |-> "written"],
   [file |-> FilePartial, result |-> "failed"]}

\* response.json() of get_transactions: the first page of the history.
Page ==
  [kind |-> "ok",
   items |-> SubSeq(upstream, 1, IF Len(upstream) < MaxPage THEN Len(upstream) ELSE MaxPage)]

\* after_cycle for a loop without the `except Exception` handler: an
\* exception in a cycle ends the process.
after_cycle_no_handler(pos, exc) ==
  IF pos = "single" \/ exc # "none"
  THEN [rpc |-> "exited", exit_code |-> IF exc = "none" THEN "0" ELSE "1"]
  ELSE [rpc |-> "sleep", exit_code |-> "none"]

\* Where main() is once analyze_transactions has returned (exc = "none") or
\* raised exc: single-shot mode ends the process, with a traceback and status
\* 1 for an exception; monitor_continuously sleeps in the try block or in
\* the `except Exception` handler.
after_cycle(pos, exc) ==
  IF pos = "single"
  THEN [rpc |-> "exited", exit_code |-> IF exc = "none" THEN "0" ELSE "1"]
  ELSE [rpc |-> IF exc = "none" THEN "sleep" ELSE "handler_sleep", exit_code |-> "none"]

\* The hashes of txs, in order.
HashesOf(txs) == [i \in 1..Len(txs) |-> txs[i].hash]

\* main(): the constructor; init_data_file writes the initial record when
\* there is no file.
MainConstructs ==
  /\ rpc = "main"
  /\ \E s \in (IF file.kind = "absent"
               THEN save_data(Serialise(initial_data(Self.address)))
               ELSE {[file |-> file, result |-> save_result]}) :
       /\ file' = s.file
       /\ save_result' = s.result
       /\ persisted' = Persisted(s.file, persisted)
  /\ rpc' = IF args.monitor THEN "cycle" ELSE "single"
  /\ UNCHANGED <<args, exit_code, interrupted, error, upstream, counted,
                 cycles, outcome, run_frame>>

\* The explorer indexes one more transaction of the address.
UpstreamGrows ==
  /\ rpc # "exited"
  /\ Len(upstream) < MaxUpstream
  /\ \E tx \in Txs :
       /\ \A i \in 1..Len(upstream) : upstream[i] # tx
       /\ upstream' = <<tx>> \o upstream
  /\ UNCHANGED <<file, args, rpc, exit_code, interrupted, error, counted, persisted,
                 cycles, outcome, save_result, run_frame>>

\* A cycle whose fetch fails (RequestException, or a body without "items").
RunFetchFails ==
  /\ rpc \in {"single", "cycle"}
  /\ cycles < MaxCycles
  /\ \E r \in {[kind |-> "error", items |-> <<>>], [kind |-> "noitems", items |-> <<>>]} :
       analyze_transactions(Self, r, file, Now).outcome = "fetch_failed"
  /\ outcome' = "fetch_failed"
  /\ error' = "none"
  /\ cycles' = cycles + 1
  /\ rpc' = after_cycle(rpc, "none").rpc
  /\ exit_code' = after_cycle(rpc, "none").exit_code
  /\ UNCHANGED <<file, args, interrupted, upstream, counted, persisted,
                 save_result, run_frame>>

\* A cycle that an exception leaves before save_data.
RunRaises ==
  /\ rpc \in {"single", "cycle"}
  /\ cycles < MaxCycles
  /\ LET a == analyze_transactions(Self, Page, file, Now)
     IN /\ a.outcome = "raised"
        /\ error' = a.exc
        /\ rpc' = after_cycle(rpc, a.exc).rpc
        /\ exit_code' = after_cycle(rpc, a.exc).exit_code
  /\ outcome' = "raised"
  /\ cycles' = cycles + 1
  /\ UNCHANGED <<file, args, interrupted, upstream, counted, persisted,
                 save_result, run_frame>>

\* A cycle that reaches save_data; the save is written or fails.
RunSaves ==
  /\ rpc \in {"single", "cycle"}
  /\ cycles < MaxCycles
  /\ LET a == analyze_transactions(Self, Page, file, Now)
         before == IF load_data(file).result = "data" THEN counted ELSE <<>>
     IN /\ a.outcome = "save"
        /\ \E s \in save_data(Serialise(a.data)) :
             /\ file' = s.file
             /\ save_result' = s.result
             /\ persisted' = Persisted(s.file, persisted)
             /\ counted' = IF s.result = "written"
                           THEN before \o HashesOf(Reversed(a.new_transactions))
                           ELSE <<>>
  /\ outcome' = "saved"
  /\ error' = "none"
  /\ cycles' = cycles + 1
  /\ rpc' = after_cycle(rpc, "none").rpc
  /\ exit_code' = after_cycle(rpc, "none").exit_code
  /\ UNCHANGED <<args, interrupted, upstream, run_frame>>

\* time.sleep(interval) returns, in the try block or in the handler.
SleepElapses ==
  /\ rpc \in {"sleep", "handler_sleep"}
  /\ rpc' = "cycle"
  /\ UNCHANGED <<file, args, exit_code, interrupted, error, upstream, counted,
                 persisted, cycles, outcome, save_result, run_frame>>

\* Ctrl+C inside the try block, outside save_data's `with`: the loop's
\* `except KeyboardInterrupt` logs and breaks, main() returns.
InterruptCaught ==
  /\ rpc \in {"cycle", "sleep"}
  /\ interrupted' = TRUE
  /\ rpc' = "exited"
  /\ exit_code' = "0"
  /\ UNCHANGED <<file, args, error, upstream, counted, persisted,
                 cycles, outcome, save_result, run_frame>>

\* Ctrl+C while save_data has the file open: KeyboardInterrupt is not an
\* Exception, the truncated file stays, the loop breaks.
InterruptDuringSave ==
  /\ rpc = "cycle"
  /\ cycles < MaxCycles
  /\ analyze_transactions(Self, Page, file, Now).outcome = "save"
  /\ file' = FilePartial
  /\ counted' = <<>>
  /\ interrupted' = TRUE
  /\ rpc' = "exited"
  /\ exit_code' = "0"
  /\ UNCHANGED <<args, error, upstream, persisted, cycles, outcome, save_result, run_frame>>

\* Ctrl+C where no handler catches it: in single-shot mode, or during the
\* sleep of the `except Exception` handler.  The process ends on the
\* KeyboardInterrupt.
InterruptUncaught ==
  /\ rpc \in {"single", "handler_sleep"}
  /\ interrupted' = TRUE
  /\ rpc' = "exited"
  /\ exit_code' = "SIGINT"
  /\ UNCHANGED <<file, args, error, upstream, counted, persisted,
                 cycles, outcome, save_result, run_frame>>

RunNext ==
  \/ MainConstructs
  \/ UpstreamGrows
  \/ RunFetchFails
  \/ RunRaises
  \/ RunSaves
  \/ SleepElapses
  \/ InterruptCaught
  \/ InterruptDuringSave
  \/ InterruptUncaught

RunSpec == RunInit /\ [][RunNext]_vars

\* The process started without a file, against an empty history.
FreshInit == RunInit /\ file = FileAbsent

FreshSpec == FreshInit /\ [][RunNext]_vars

\* --------------------------------------------------------- the classifier
\* One call of is_target_pair_transaction, on any monitor main() can build
\* and any destination: null, an object without "hash" (""), or an address
\* in mixed, lower or upper case.
Destinations ==
  {None, "", ETH_ADDRESS,
   MPH_ADDRESS, "0x579c032a137d796f29b14adecb58c2e56b14e367", MPH_UPPER,
   UNIVERSAL_ROUTER, "0xb789922d715475f419b7cb47b6155bf7a2acecd6", UNIVERSAL_ROUTER_UPPER,
   UNISWAP_V2_ROUTER, "0x81606e6f8aad6c75c2f383ea595c2b9f8ce8ae3a", UNISWAP_V2_ROUTER_UPPER,
   OTHER_ADDRESS, "0xabcd000000000000000000000000000000000099", OTHER_UPPER}

ClassifierInit ==
  /\ call \in {[self |-> MorphTransactionMonitor(MONITORED, b, q),
                 tx |-> [hash |-> "h1", to |-> d],
                 result |-> Raises("pending")] :
                  b \in Symbols, q \in Symbols, d \in Destinations}
  /\ file = FileAbsent
  /\ cycles = 0
  /\ outcome = "none"
  /\ save_result = "none"
  /\ ThreadsIdle
  /\ RunIdle

Classify ==
  /\ call.result.exc = "pending"
  /\ call' = [call EXCEPT !.result = is_target_pair_transaction(call.self, call.tx)]
  /\ UNCHANGED <<file, cycles, outcome, save_result, threads_vars, resp, pre,
                 new_txs, prev, run_vars>>

ClassifierNext == Classify

ClassifierSpec == ClassifierInit /\ [][ClassifierNext]_vars

\* ---------------------------------------------------------------- claims
\* The record the last cycle started from: the file's, or the zeroed one of
\* lines 146-164 when the file could not be read.
Base == IF pre.kind = "record" THEN pre ELSE Serialise(initial_data(MONITORED))

\* The last cycle got as far as the scan of line 170.
Scanned ==
  /\ cycles > 0
  /\ ~FetchFailed(resp)
  /\ pre.kind = "partial" \/ (pre.kind = "record" /\ pre.has_monitoring)

\* No /stats request was made and no write failed: the poller ran alone on a
\* healthy disk.
PollerAlone ==
  /\ spc = "idle"
  /\ status_code = "none"
  /\ save_result # "failed"

\* C1: the persisted abnormal_transactions counter is never greater than the
\* persisted total_transactions counter, whatever the pages and the outcomes
\* of the cycles.
AbnormalAtMostTotal ==
  (file.kind = "record" /\ file.has_monitoring)
    => file.abnormal_transactions <= file.total_transactions

\* A cycle counted expected and abnormal transactions and its save was written.
AbnormalAtMostTotalWitness ==
  /\ outcome = "saved" /\ save_result = "written" /\ file = pending
  /\ pre.kind = "record"
  /\ file.abnormal_transactions > pre.abnormal_transactions
  /\ file.total_transactions - pre.total_transactions
       > file.abnormal_transactions - pre.abnormal_transactions

\* The last n elements of s (all of s when it is shorter), oldest first.
LastN(s, n) ==
  LET k == IF Len(s) < n THEN Len(s) ELSE n
  IN [i \in 1..k |-> s[Len(s) - k + i]]

\* C2: abnormal_txs never holds more than 100 records, and it is the last
\* min(100, n) of the n abnormal records appended to the record, in their
\* order of detection: eviction takes the oldest.  Both for the file and
\* for what a save is writing.
HistoryIsLastDetected ==
  \A d \in {file, pending, spending} :
    d.kind = "record" =>
      /\ Len(d.abnormal_txs) <= HISTORY_LIMIT
      /\ d.abnormal_txs = LastN(d.detected, HISTORY_LIMIT)

\* A written record whose history lost its oldest entries.
HistoryIsLastDetectedWitness ==
  /\ outcome = "saved" /\ save_result = "written" /\ file = pending
  /\ Len(file.detected) > HISTORY_LIMIT
  /\ Len(file.abnormal_txs) = HISTORY_LIMIT
  /\ file.abnormal_txs[1] # file.detected[1]

\* The items of the page strictly before the first one whose hash is `last`.
PrefixBefore(items, last) ==
  LET hits == {i \in 1..Len(items) : items[i].hash = last}
  IN IF hits = {} THEN items
     ELSE SubSeq(items, 1, (CHOOSE i \in hits : \A j \in hits : i <= j) - 1)

IsAbnormal(tx) == ~is_target_pair_transaction(Monitor, tx).value

\* The abnormal records of the transactions `new`, last of `new` first.
AbnormalOldestFirst(new) ==
  LET backwards == [i \in 1..Len(new) |-> new[Len(new) + 1 - i]]
      abnormal == SelectSeq(backwards, IsAbnormal)
  IN [i \in 1..Len(abnormal) |-> abnormal_tx(abnormal[i])]

\* C3: the transactions a cycle treats as new are the prefix of the page
\* strictly before the first entry whose hash is the stored last_processed_tx
\* (the whole page when it is unset or not in the page), and a cycle that
\* saves has counted each of them and recorded the abnormal ones in reverse
\* page order.
NewIsPrefixOldestFirst ==
  Scanned =>
    /\ new_txs = PrefixBefore(resp.items, Base.last_processed_tx)
    /\ outcome = "saved" =>
         /\ pending.total_transactions = Base.total_transactions + Len(new_txs)
         /\ pending.detected = Base.detected \o AbnormalOldestFirst(new_txs)

\* A page whose second entry is the stored last_processed_tx: only the first
\* entry was new.
NewIsPrefixOldestFirstWitness ==
  /\ Scanned /\ outcome = "saved" /\ save_result = "written" /\ file = pending
  /\ pre.kind = "record"
  /\ Len(resp.items) = 2
  /\ resp.items[2].hash = pre.last_processed_tx
  /\ new_txs = <<resp.items[1]>>
  /\ file.total_transactions = pre.total_transactions + 1

\* C4 (as claimed): after a cycle with a fetched page, a second cycle with
\* the same page finds no new transaction and leaves the counters and the
\* history as they are; stated for a poller that runs alone on a healthy
\* disk.
SecondRunFindsNothing ==
  (PollerAlone /\ pc = "ready" /\ cycles > 0 /\ ~FetchFailed(resp)) =>
    LET again == analyze_transactions(Monitor, resp, file, Now)
    IN /\ again.new_transactions = <<>>
       /\ again.outcome = "save" =>
            /\ again.data.total_transactions = file.total_transactions
            /\ again.data.abnormal_transactions = file.abnormal_transactions
            /\ again.data.abnormal_txs = file.abnormal_txs

\* C5: a cycle whose fetch fails changes nothing: the file is as it was and
\* no save is begun.
FetchFailureChangesNothing ==
  [][(cycles' = cycles + 1 /\ FetchFailed(resp'))
       => (file' = file /\ pending' = pending /\ writers' = writers /\ pc' = pc)]_vars

\* A fetch failed over a record that holds counted transactions.
FetchFailureChangesNothingWitness ==
  /\ outcome = "fetch_failed"
  /\ FetchFailed(resp)
  /\ file = pre
  /\ file.kind = "record"
  /\ file.total_transactions > 0

\* C6 (as claimed): a load_data of the /stats handler that runs while a
\* save_data of the poller is open over a complete record reads that
\* previous record or the complete new one.
ReaderSeesWholeRecord ==
  (pc = "cycle_write" /\ prev.kind = "record") => observed \in {"idle", "previous", "new"}

\* C7 (as claimed): when the poller's save_data, begun over a complete
\* record, fails while writing, the file still holds that record; stated for
\* a poller that no /stats request interferes with.
FailedSaveKeepsPrevious ==
  (spc = "idle" /\ status_code = "none" /\ save_result = "failed" /\ prev.kind = "record")
    => file = prev

\* C8 (as claimed): a cycle whose new transactions include one with a null
\* `to` completes: it does not raise, it saves, and what it saves counts every
\* new transaction in total_transactions and the null-`to` ones in
\* abnormal_transactions.
NullDestinationCompletes ==
  (Scanned /\ \E i \in 1..Len(new_txs) : new_txs[i].to = None) =>
    /\ outcome = "saved"
    /\ pending.total_transactions = Base.total_transactions + Len(new_txs)
    /\ pending.abnormal_transactions
         = Base.abnormal_transactions + Len(SelectSeq(new_txs, IsAbnormal))

\* C9 (as claimed): once a cycle whose fetch gave a non-empty page is over,
\* the persisted last_processed_tx is the hash of the first entry of the
\* page; stated for a readable record with 'monitoring' and a poller that
\* runs alone on a healthy disk.
HighWaterMarkAdvances ==
  (PollerAlone /\ pc = "ready" /\ Scanned /\ pre.kind = "record" /\ resp.items # <<>>)
    => (file.kind = "record" /\ file.last_processed_tx = resp.items[1].hash)

\* C10 (as claimed): no step of the /stats handler changes the file.
StatusIsReadOnly == [][StatusNext => file' = file]_vars

\* C11 (as claimed): a /stats request that found no record (its constructor
\* saw no file, so the handler went through "ctor_write" to "load") is
\* answered 404.
NoRecordAnswersNotFound ==
  [][(spc = "load" /\ spc' = "idle") => status_code' = "404"]_vars

\* C12 (as claimed): no poll cycle fails because of a token symbol that is
\* not in TOKEN_ADDRESSES: construction would have rejected the symbol, so
\* no cycle is left by the AttributeError of line 130 (None.lower()).
NoCycleFailsOnUnknownSymbol == error # "NoneType.lower"

\* C13 (as claimed): a cycle with a fetched page (without null destinations)
\* over a well-formed record that lacks 'monitoring' or whose start_time is
\* null completes: it reaches save_data with a record that has 'monitoring',
\* a set start_time and counters that count the new transactions.
OldRecordIsRepaired ==
  (/\ cycles > 0
   /\ ~FetchFailed(resp)
   /\ \A i \in 1..Len(resp.items) : resp.items[i].to # None
   /\ pre.kind = "record"
   /\ ~pre.has_monitoring \/ pre.start_time = NoTime)
    => /\ outcome = "saved"
       /\ pending.has_monitoring
       /\ pending.start_time # NoTime
       /\ pending.total_transactions = Base.total_transactions + Len(new_txs)
       /\ pending.abnormal_transactions
            = Base.abnormal_transactions + Len(SelectSeq(new_txs, IsAbnormal))

\* C14 (as claimed): total_transactions and abnormal_transactions never
\* decrease: after any step of the process, a readable record in the file
\* holds counters that are at least those of the last readable record the
\* file held before the step.
CountersNeverDecrease ==
  [][Readable(file') =>
       /\ file'.total_transactions >= persisted.total_transactions
       /\ file'.abnormal_transactions >= persisted.abnormal_transactions]_vars

\* C15: in continuous mode every cycle outcome (saved, fetch failure, or an
\* exception raised inside the cycle) is followed by a sleep, and the only
\* steps out of a sleep are the next cycle's try block or the operator's
\* interrupt; the process ends only on an interrupt, and once it has ended
\* no cycle runs.
RunnerStopsOnlyOnInterrupt ==
  [][args.monitor =>
       /\ cycles' = cycles + 1 => rpc' \in {"sleep", "handler_sleep"}
       /\ (rpc = "cycle" /\ rpc' # rpc) => (cycles' = cycles + 1 \/ interrupted')
       /\ (rpc \in {"sleep", "handler_sleep"} /\ rpc' # rpc)
            => (rpc' = "cycle" \/ interrupted')
       /\ (rpc # "exited" /\ rpc' = "exited") => (~interrupted /\ interrupted')
       /\ rpc = "exited" => (rpc' = "exited" /\ cycles' = cycles)]_vars

\* A runner whose second cycle raised, that slept in the handler and was
\* then stopped by the operator.
RunnerStopsOnlyOnInterruptWitness ==
  /\ args.monitor
  /\ cycles >= 2
  /\ outcome = "raised"
  /\ rpc = "exited"
  /\ interrupted

\* C16 (as claimed): once a cycle whose fetch gave an empty page is over, the
\* record in the file has the start_time (as an instant), last_processed_tx,
\* counters and abnormal_txs it had before the cycle; stated for a readable
\* record with 'monitoring' and a poller that runs alone on a healthy disk.
EmptyPageChangesNothing ==
  (/\ PollerAlone
   /\ pc = "ready"
   /\ cycles > 0
   /\ resp = [kind |-> "ok", items |-> <<>>]
   /\ pre.kind = "record"
   /\ pre.has_monitoring)
    => /\ file.kind = "record"
       /\ fromisoformat(file.start_time) = fromisoformat(pre.start_time)
       /\ file.last_processed_tx = pre.last_processed_tx
       /\ file.total_transactions = pre.total_transactions
       /\ file.abnormal_transactions = pre.abnormal_transactions
       /\ file.abnormal_txs = pre.abnormal_txs

\* C17 (as claimed): a single-shot process whose cycle had a fetch error or
\* a save error ends with a non-zero status, and a continuous process ends
\* only on the operator's interrupt.
SingleShotSurfacesErrors ==
  /\ (/\ ~args.monitor
      /\ rpc = "exited"
      /\ outcome = "fetch_failed" \/ (outcome = "saved" /\ save_result = "failed"))
       => exit_code # "0"
  /\ (args.monitor /\ rpc = "exited") => interrupted

\* The spellings of each address, which differ only in the case of letters.
AddressSpellings ==
  {{ETH_ADDRESS},
   {MPH_ADDRESS, "0x579c032a137d796f29b14adecb58c2e56b14e367", MPH_UPPER},
   {UNIVERSAL_ROUTER, "0xb789922d715475f419b7cb47b6155bf7a2acecd6", UNIVERSAL_ROUTER_UPPER},
   {UNISWAP_V2_ROUTER, "0x81606e6f8aad6c75c2f383ea595c2b9f8ce8ae3a", UNISWAP_V2_ROUTER_UPPER},
   {OTHER_ADDRESS, "0xabcd000000000000000000000000000000000099", OTHER_UPPER}}

\* a and b are the same address, whatever the case of their letters.
SameAddress(a, b) == \E S \in AddressSpellings : a \in S /\ b \in S

\* The addresses a monitor with known token symbols expects as destination.
ExpectedAddresses(self) ==
  {UNIVERSAL_ROUTER, UNISWAP_V2_ROUTER,
   TOKEN_ADDRESSES[self.base_token], TOKEN_ADDRESSES[self.quote_token]}

KnownSymbols(self) ==
  self.base_token \in DOMAIN TOKEN_ADDRESSES /\ self.quote_token \in DOMAIN TOKEN_ADDRESSES

\* C18: for a monitor whose two token symbols are in TOKEN_ADDRESSES, the
\* classifier raises nothing and returns true exactly when the transaction
\* has a destination that is, case aside, a DEX router or one of the pair's
\* two token addresses; a null destination and one without hash give false.
ClassifierMatchesPair ==
  (call.result.exc # "pending" /\ KnownSymbols(call.self)) =>
    /\ call.result.exc = "none"
    /\ call.result.value
         <=> /\ call.tx.to # None
             /\ \E a \in ExpectedAddresses(call.self) : SameAddress(call.tx.to, a)

\* The quote token's address in upper case is taken for the quote token.
ClassifierMatchesPairWitness ==
  /\ call.result.exc = "none"
  /\ call.result.value
  /\ call.self.base_token = "ETH"
  /\ call.self.quote_token = "MPH"
  /\ call.tx.to = MPH_UPPER

NoDuplicates(s) == \A i, j \in 1..Len(s) : i # j => s[i] # s[j]

\* C19: against a history that only grows at its front, starting without a
\* file, the record in the file counts every hash at most once: its
\* total_transactions is the number of hashes counted into it, no hash was
\* counted twice, and no hash is twice in abnormal_txs; whatever cycles
\* failed at fetch, raised, failed to save or were interrupted.
NoReprocessing ==
  Readable(file) =>
    /\ file.total_transactions = Len(counted)
    /\ NoDuplicates(counted)
    /\ NoDuplicates(HashesOf(file.abnormal_txs))

\* The record counts the whole history, which is longer than a page: at
\* least two cycles counted into it, the later ones from a page that
\* overlaps what was counted before.
NoReprocessingWitness ==
  /\ Readable(file)
  /\ outcome = "saved"
  /\ save_result = "written"
  /\ Len(upstream) > MaxPage
  /\ Len(counted) = Len(upstream)
  /\ file.last_processed_tx = upstream[1].hash
  /\ Len(file.abnormal_txs) >= 2

Min(a, b) == IF a < b THEN a ELSE b

\* C20: in a record with 'monitoring', abnormal_txs has
\* min(100, abnormal_transactions) entries: the counter and the history are
\* persisted together, so the history is never shorter than the counter
\* implies.
HistoryMatchesCounter ==
  \A d \in {file, pending} :
    Readable(d) => Len(d.abnormal_txs) = Min(HISTORY_LIMIT, d.abnormal_transactions)

\* A written record whose counter passed 100 while the history stayed at 100.
HistoryMatchesCounterWitness ==
  /\ outcome = "saved" /\ save_result = "written" /\ file = pending
  /\ file.abnormal_transactions > HISTORY_LIMIT
  /\ Len(file.abnormal_txs) = HISTORY_LIMIT
  /\ pre.kind = "record"
  /\ pre.abnormal_transactions < HISTORY_LIMIT

====
